---- MODULE Spec2Model ----
(***************************************************************************)
(* Transaction-reliability layer of the Solana / Meteora gateway:          *)
(*   - fetchEstimatePriorityFees   (priority-fee estimator)                *)
(*   - confirmTransaction / confirmTransactionByAddress (confirmation)     *)
(*   - sendAndConfirmTransaction   (sign / broadcast / retry loop)         *)
(*   - getDlmmPool                 (pool cache with in-flight promises)    *)
(* Two revisions of the SolanaController are modelled side by side:        *)
(*   rev = 1 : src/unnamed/part_001                                        *)
(*   rev = 2 : the second controller of src/unnamed/part_002 (l. 266-645)  *)
(***************************************************************************)
EXTENDS Integers, Sequences, FiniteSets, TLC

VARIABLES
    rev,            \* which revision of the controller runs (1 or 2)
    feeResp,        \* the response of the getRecentPrioritizationFees request
    feeEst,         \* the FeeEstimates returned by fetchEstimatePriorityFees
    feeCalls        \* how often fetchEstimatePriorityFees was called

feeVars == <<rev, feeResp, feeEst, feeCalls>>

\* One call of sendAndConfirmTransaction(tx, ...)
VARIABLES
    pc,                     \* position of the call (the await it is suspended at)
    commitment,             \* requested commitment (an argument in rev 2, 'confirmed' in rev 1)
    txInstrs,               \* tx.instructions
    txLastValid,            \* tx.lastValidBlockHeight
    blockheight,            \* local: let blockheight
    lastValidBlockHeight,   \* local: const lastValidBlockHeight
    signature,              \* local: let signature (0 = undefined, k = result of the k-th broadcast)
    nSigned,                \* number of tx.sign calls (saturating at MaxSends)
    nSent,                  \* number of sendRawTransaction calls that returned (saturating)
    rpcDirect,              \* what getSignatureStatuses answers in the current check
    rpcReverse,             \* what getSignaturesForAddress answers in the current check
    checkSig,               \* the signature the current / last confirmation check was made on
    checkDirect,            \* what getSignatureStatuses answered in the current / last check
    checkReverse,           \* what getSignaturesForAddress answered in the current / last check
    retSig,                 \* the signature returned to the caller
    errKind,                \* the error raised to the caller
    signers,                \* the signers argument (part_001; part_002 has none)
    txSigners,              \* the signers the transaction requires
    signedBy                \* the signers whose signatures tx carries

\* the transaction and the locals of the call
callVars == <<commitment, txInstrs, txLastValid, blockheight, lastValidBlockHeight,
              signature, nSigned, nSent>>

\* the answers of the two read paths and what the call saw of them
rpcVars == <<rpcDirect, rpcReverse>>

checkVars == <<checkSig, checkDirect, checkReverse>>

\* how the call ended
endVars == <<retSig, errKind>>

\* who has to sign and who has signed
signVars == <<signers, txSigners, signedBy>>

txVars == <<pc, callVars, rpcVars, checkVars, endVars, signVars>>

\* The module-level pool cache of meteora.controller.ts and the calls of getDlmmPool
VARIABLES
    dlmmPools,          \* Map<string, DLMM>: address -> instance (0 = no entry)
    dlmmPoolPromises,   \* Map<string, Promise<DLMM>>: address -> promise (0 = no entry)
    promState,          \* each promise: "unused" | "pending" | "fulfilled" | "rejected"
    promAddr,           \* the address a promise constructs
    createCount,        \* address -> number of DLMM.create invocations
    callState,          \* each caller: "idle" | "waiting" | "got" | "failed"
    callAddr,           \* the address of the caller's current / last call
    callPromise,        \* the promise the caller awaits (0 = none)
    callResult,         \* the instance the caller's call resolved to (0 = none)
    callEarly,          \* the call was issued before a construction for its address resolved
    nCalls              \* number of getDlmmPool calls made

poolVars == <<dlmmPools, dlmmPoolPromises, promState, promAddr, createCount,
              callState, callAddr, callPromise, callResult, callEarly, nCalls>>

\* Calls of confirmTransaction on signatures whose status the cluster advances
VARIABLES
    ocCommitment,       \* the commitment the calls ask for (an argument in rev 2)
    ocStatus,           \* signature -> the status the cluster holds for it
    ocLast,             \* signature -> what the last call on it returned or threw
    ocEverTrue,         \* signature -> some call on it has returned true
    ocTarget,           \* the signature of the last confirmTransactionByAddress call (0 = none)
    ocHistory,          \* the answer of getSignaturesForAddress to that call
    ocByAddress         \* what that call returned or threw

oracleVars == <<ocCommitment, ocStatus, ocLast, ocEverTrue, ocTarget, ocHistory, ocByAddress>>

\* One call of executeSwap (the revision with balance polling)
VARIABLES
    swPc,           \* position of the call
    swSol,          \* which of the two tokens is native SOL: "in" | "out" | "none"
    swPre,          \* wallet amounts (base units) before the swap: [in, out]
    swEffect,       \* what the swap transaction does: [amountIn, amountOut, fee]
    swVisible,      \* the read path already shows the balances after the swap
    swBefore,       \* inputTokenBefore / outputTokenBefore: [in, out]
    swAfter,        \* inputTokenAfter / outputTokenAfter: [in, out]
    retries,        \* let retries
    swReads,        \* number of getBalance calls of the polling loop
    swSleeps,       \* number of 500 ms sleeps started
    swTotal,        \* totalInputSwapped / totalOutputSwapped: [in, out]
    swSignature     \* the signature returned (0 = none)

swapVars == <<swPc, swSol, swPre, swEffect, swVisible, swBefore, swAfter, retries,
              swReads, swSleeps, swTotal, swSignature>>

\* One call of extractTokenBalanceChangeAndFee / extractAccountBalanceChangeAndFee
VARIABLES
    exPc,           \* position of the call: "loop" | "sleep" | "returned"
    exKind,         \* which of the two functions runs: "token" | "account"
    exTx,           \* the transaction as the cluster records it: [meta, pre, post, fee]
    attempt,        \* let attempt
    exCalls,        \* number of getParsedTransaction calls
    txDetails,      \* let txDetails is set (TRUE) or undefined / null (FALSE)
    exAnswer,       \* how the last getParsedTransaction call ended
    exResult        \* the value returned: [balanceChange, fee]

extractVars == <<exPc, exKind, exTx, attempt, exCalls, txDetails, exAnswer, exResult>>

\* Concurrent requests running openPosition
VARIABLES
    opVariant,      \* request -> its revision: "routes" (openPosition.ts) | "part_007"
    opPc,           \* request -> the await it is suspended at, "returned" or "raised"
    opSubmitFailed, \* request -> sendAndConfirmTransaction rejected
    opResult        \* request -> the value returned: [signature, positionAddress]

openVars == <<opVariant, opPc, opSubmitFailed, opResult>>

\* One call of addLiquidity or removeLiquidity
VARIABLES
    lqKind,         \* "add" (part_007) | "remove" (part_004)
    lqPc,           \* position of the call
    lqBefore,       \* beforeLiquidity: [tokenX, tokenY]
    lqPost,         \* the amounts of the position once the transaction has executed
    lqVisible,      \* the read path already shows the position after the transaction
    lqUpdated,      \* updatedPosition.positionData: [tokenX, tokenY]
    retryCount,     \* let retryCount
    lqSleeps,       \* number of 1000 ms sleeps
    lqReturn        \* returnObject: [signature, liquidityAfter]

liquidityVars == <<lqKind, lqPc, lqBefore, lqPost, lqVisible, lqUpdated, retryCount,
                   lqSleeps, lqReturn>>

\* One call of getBalance
VARIABLES
    gbRev,          \* "part_000" | "routes" (routes/getBalance.ts) | "package" (package.json)
    symbols,        \* symbols?: [given, names]; given = FALSE is undefined
    lamports,       \* the wallet's native balance
    held,           \* the wallet's token accounts: amount by mint, -1 is no account
    gbPc,           \* position of the call
    accounts,       \* accounts.value once fetched
    tokenAccounts   \* const tokenAccounts = [], the response once returned

balanceVars == <<gbRev, symbols, lamports, held, gbPc, accounts, tokenAccounts>>

\* the components added to the controller's three
otherVars == <<oracleVars, swapVars, extractVars, openVars, liquidityVars, balanceVars>>

\* what a specification of one component leaves alone
notFeeVars == <<txVars, poolVars, otherVars>>

notSubmitVars == <<poolVars, otherVars>>

notPoolVars == <<feeVars, txVars, otherVars>>

notOracleVars == <<feeVars, txVars, poolVars, swapVars, extractVars, openVars,
                   liquidityVars, balanceVars>>

notSwapVars == <<feeVars, txVars, poolVars, oracleVars, extractVars, openVars,
                   liquidityVars, balanceVars>>

notExtractVars == <<feeVars, txVars, poolVars, oracleVars, swapVars, openVars,
                   liquidityVars, balanceVars>>

notLiquidityVars == <<feeVars, txVars, poolVars, oracleVars, swapVars, extractVars, openVars,
                      balanceVars>>

notBalanceVars == <<feeVars, txVars, poolVars, oracleVars, swapVars, extractVars, openVars,
                    liquidityVars>>

notOpenVars == <<feeVars, txVars, poolVars, oracleVars, swapVars, extractVars,
                   liquidityVars, balanceVars>>

vars == <<feeVars, txVars, poolVars, otherVars>>

----------------------------------------------------------------------------
(* Bounds of the model *)

\* longest list of fee samples in a response
MaxSamples == 5

\* highest block height the first getBlockHeight() may return
MaxInitHeight == 2

\* how far past lastValidBlockHeight a refreshed block height may be observed
MaxOvershoot == 1

\* the sign / broadcast counters stop counting here
MaxSends == 2

\* number of concurrent requests that call getDlmmPool
MaxCallers == 3

\* number of pool addresses
MaxAddrs == 2

\* number of getDlmmPool calls in one run
MaxCalls == 4

\* number of signatures confirmTransaction is asked about
MaxSigs == 2

\* base units per displayed unit of a token (10 ^ decimals)
UiScale == 10

\* largest amount a swap takes from the input token
MaxAmountIn == 11

\* largest balance (base units) and largest fee (lamports) a transaction records
MaxBalance == 2

MaxFee == 1

\* number of concurrent openPosition requests
MaxRequests == 2

\* largest amount (base units) of a token in a position
MaxLiquidity == 1

\* fee samples (micro-lamports per compute unit) a response may carry
FeeValues == {0, 5000, 10000, 20000, 40001, 160004}

Revisions == {1, 2}

Callers == 1 .. MaxCallers

Addrs == 1 .. MaxAddrs

Sigs == 1 .. MaxSigs

Requests == 1 .. MaxRequests

\* every call starts at most one construction
PromiseIds == 1 .. MaxCalls

----------------------------------------------------------------------------
(* fetchEstimatePriorityFees *)

NoFees == [low |-> -1, medium |-> -1, high |-> -1, extreme |-> -1]

\* const DEFAULT_FEES = { low: 10000, medium: 20000, high: 30000, extreme: 40000 }
DEFAULT_FEES == [low |-> 10000, medium |-> 20000, high |-> 30000, extreme |-> 40000]

\* part_002: the value returned when response.ok is false
HTTP_ERROR_FEES_2 == [low |-> 0, medium |-> 0, high |-> 0, extreme |-> 8000]

\* part_002: the value returned from the catch block
CATCH_FEES_2 == [low |-> 2000, medium |-> 4000, high |-> 6000, extreme |-> 8000]

Max(a, b) == IF a >= b THEN a ELSE b

Min(a, b) == IF a <= b THEN a ELSE b

SeqsUpTo(S, n) == UNION {[1..k -> S] : k \in 0..n}

\* The responses of the fee request:
\*   "netfail"  fetch() rejects
\*   "http"     response.ok is false
\*   "badbody"  the body has no result list (data.result.map throws)
\*   "ok"       result is a list of samples
FeeResponses ==
    {[kind |-> k, fees |-> <<>>] : k \in {"netfail", "http", "badbody"}}
    \cup {[kind |-> "ok", fees |-> s] : s \in SeqsUpTo(FeeValues, MaxSamples)}

\* fees.filter((fee) => fee > 0)
nonZeroFilter(fees) == SelectSeq(fees, LAMBDA f : f > 0)

RECURSIVE InsertAsc(_, _)
InsertAsc(s, x) ==
    IF s = <<>> THEN <<x>>
    ELSE IF x < Head(s) THEN <<x>> \o s
    ELSE <<Head(s)>> \o InsertAsc(Tail(s), x)

RECURSIVE InsertDesc(_, _)
InsertDesc(s, x) ==
    IF s = <<>> THEN <<x>>
    ELSE IF x > Head(s) THEN <<x>> \o s
    ELSE <<Head(s)>> \o InsertDesc(Tail(s), x)

RECURSIVE SortDesc(_)
SortDesc(s) == IF s = <<>> THEN <<>> ELSE InsertDesc(SortDesc(Tail(s)), Head(s))

\* nonZeroFees.sort((a, b) => a - b)
RECURSIVE SortAsc(_)
SortAsc(s) == IF s = <<>> THEN <<>> ELSE InsertAsc(SortAsc(Tail(s)), Head(s))

\* Math.floor(maxFee * num/4) for the factors 0.25, 0.5, 0.75 and 1
FloorQuarter(maxFee, num) == (maxFee * num) \div 4

\* part_001: Math.max(Math.floor(maxFee * f), floor)
TierNoFloor(maxFee, num, floor) == FloorQuarter(maxFee, num)

Tier1(maxFee, num, floor) == Max(FloorQuarter(maxFee, num), floor)

\* part_001, lines 260-282: the schedule computed from a result list
FeesFromSamples1(fees) ==
    LET nonZeroFees == SortAsc(nonZeroFilter(fees))
    IN  IF Len(nonZeroFees) > 0
        THEN LET maxFee == nonZeroFees[Len(nonZeroFees)]
             IN  [low     |-> Tier1(maxFee, 1, DEFAULT_FEES.low),
                  medium  |-> Tier1(maxFee, 2, DEFAULT_FEES.medium),
                  high    |-> Tier1(maxFee, 3, DEFAULT_FEES.high),
                  extreme |-> Tier1(maxFee, 4, DEFAULT_FEES.extreme)]
        ELSE DEFAULT_FEES

\* part_001, lines 224-289
fetchEstimatePriorityFees1(resp) ==
    CASE resp.kind = "netfail" -> DEFAULT_FEES
      [] resp.kind = "http"    -> DEFAULT_FEES
      [] resp.kind = "badbody" -> DEFAULT_FEES
      [] OTHER                 -> FeesFromSamples1(resp.fees)

\* part_002, lines 522-548
FeesFromSamples2(fees) ==
    LET nonZeroFees == SortAsc(nonZeroFilter(fees))
    IN  IF Len(nonZeroFees) > 0
        THEN LET maxFee == nonZeroFees[Len(nonZeroFees)]
             IN  [low     |-> FloorQuarter(maxFee, 1),
                  medium  |-> FloorQuarter(maxFee, 2),
                  high    |-> FloorQuarter(maxFee, 3),
                  extreme |-> FloorQuarter(maxFee, 4)]
        ELSE [low |-> 0, medium |-> 0, high |-> 0, extreme |-> 0]

\* the catch block rethrows: the call ends without a schedule
fetchEstimatePriorityFeesRethrow(resp) ==
    CASE resp.kind = "netfail" -> NoFees
      [] resp.kind = "http"    -> HTTP_ERROR_FEES_2
      [] resp.kind = "badbody" -> CATCH_FEES_2
      [] OTHER                 -> FeesFromSamples2(resp.fees)

\* part_002, lines 489-555
fetchEstimatePriorityFees2(resp) ==
    CASE resp.kind = "netfail" -> CATCH_FEES_2
      [] resp.kind = "http"    -> HTTP_ERROR_FEES_2
      [] resp.kind = "badbody" -> CATCH_FEES_2
      [] OTHER                 -> FeesFromSamples2(resp.fees)

fetchEstimatePriorityFees(r, resp) ==
    IF r = 1 THEN fetchEstimatePriorityFees1(resp) ELSE fetchEstimatePriorityFees2(resp)

----------------------------------------------------------------------------
(* The state of a component that a specification does not run *)

PoolIdle ==
    /\ dlmmPools = [a \in Addrs |-> 0]
    /\ dlmmPoolPromises = [a \in Addrs |-> 0]
    /\ promState = [k \in PromiseIds |-> "unused"]
    /\ promAddr = [k \in PromiseIds |-> 0]
    /\ createCount = [a \in Addrs |-> 0]
    /\ callState = [c \in Callers |-> "idle"]
    /\ callAddr = [c \in Callers |-> 0]
    /\ callPromise = [c \in Callers |-> 0]
    /\ callResult = [c \in Callers |-> 0]
    /\ callEarly = [c \in Callers |-> FALSE]
    /\ nCalls = 0

OracleIdle ==
    /\ ocCommitment = "confirmed"
    /\ ocStatus = [s \in Sigs |-> "null"]
    /\ ocLast = [s \in Sigs |-> "none"]
    /\ ocEverTrue = [s \in Sigs |-> FALSE]
    /\ ocTarget = 0
    /\ ocHistory = [kind |-> "none", entries |-> <<>>]
    /\ ocByAddress = "none"

\* a balance not read yet, a total not computed yet
NoBalance == [whole |-> -1, frac |-> 0]

NoTotal == [in |-> -1, out |-> -1]

SwapIdle ==
    /\ swPc = "idle"
    /\ swSol = "none"
    /\ swPre = [in |-> 0, out |-> 0]
    /\ swEffect = [amountIn |-> 0, amountOut |-> 0, fee |-> 0]
    /\ swVisible = FALSE
    /\ swBefore = [in |-> NoBalance, out |-> NoBalance]
    /\ swAfter = [in |-> NoBalance, out |-> NoBalance]
    /\ retries = 0
    /\ swReads = 0
    /\ swSleeps = 0
    /\ swTotal = NoTotal
    /\ swSignature = 0

\* a number as a fraction; den = 0 is NaN
Num(n, d) == [num |-> n, den |-> d]

NoResult == [balanceChange |-> Num(-1, 0), fee |-> Num(-1, 0)]

ExtractIdle ==
    /\ exPc = "idle"
    /\ exKind = "token"
    /\ exTx = [meta |-> FALSE, pre |-> 0, post |-> 0, fee |-> 0]
    /\ attempt = 0
    /\ exCalls = 0
    /\ txDetails = FALSE
    /\ exAnswer = "none"
    /\ exResult = NoResult

\* signature: '' and positionAddress: '' are written 0
EmptyResult == [signature |-> 0, positionAddress |-> 0]

OpenIdle ==
    /\ opVariant = [r \in Requests |-> "routes"]
    /\ opPc = [r \in Requests |-> "idle"]
    /\ opSubmitFailed = [r \in Requests |-> FALSE]
    /\ opResult = [r \in Requests |-> EmptyResult]

\* amounts not read yet
NoAmounts == [tokenX |-> -1, tokenY |-> -1]

NoReturn == [signature |-> 0, liquidityAfter |-> [tokenX |-> NoBalance, tokenY |-> NoBalance]]

LiquidityIdle ==
    /\ lqKind = "add"
    /\ lqPc = "idle"
    /\ lqBefore = NoAmounts
    /\ lqPost = NoAmounts
    /\ lqVisible = FALSE
    /\ lqUpdated = NoAmounts
    /\ retryCount = 0
    /\ lqSleeps = 0
    /\ lqReturn = NoReturn

\* the mints a wallet may hold an account of: wrapped SOL, USDC and a mint the
\* token list does not have
Mints == {"So11", "EPjF", "Other"}

BalanceIdle ==
    /\ gbRev = "routes"
    /\ symbols = [given |-> FALSE, names |-> {}]
    /\ lamports = 0
    /\ held = [m \in Mints |-> -1]
    /\ gbPc = "idle"
    /\ accounts = [m \in Mints |-> -1]
    /\ tokenAccounts = <<>>

OtherIdle == OracleIdle /\ SwapIdle /\ ExtractIdle /\ OpenIdle /\ LiquidityIdle /\ BalanceIdle

TxIdle ==
    /\ pc = "idle"
    /\ commitment = "confirmed"
    /\ txInstrs = <<>>
    /\ txLastValid = -1
    /\ blockheight = -1
    /\ lastValidBlockHeight = -1
    /\ signature = 0
    /\ nSigned = 0
    /\ nSent = 0
    /\ rpcDirect = "none"
    /\ rpcReverse = "none"
    /\ checkSig = 0
    /\ checkDirect = "none"
    /\ checkReverse = "none"
    /\ retSig = 0
    /\ errKind = "none"
    /\ signers = {}
    /\ txSigners = {}
    /\ signedBy = {}

----------------------------------------------------------------------------
(* confirmTransaction / confirmTransactionByAddress *)

\* What getSignatureStatuses([signature], {searchTransactionHistory: true}) can answer:
\*   "http"       fetch rejects or response.ok is false
\*   "null"       no result / value[0] is null
\*   "err"        a status whose err is not null
\*   "processed" | "confirmed" | "finalized"   a status with err = null
\* An undefined signature (0) was never broadcast: it has no status.
DirectOutcomes(sig) ==
    IF sig = 0 THEN {"http", "null"}
    ELSE {"http", "null", "err", "processed", "confirmed", "finalized"}

\* What getSignaturesForAddress(address, {limit: 100, until: signature}) can answer:
\*   "http"       fetch rejects or response.ok is false
\*   "absent"     no result, or the signature is not in the list
\*   "err"        the entry of the signature has err not null
\*   "processed" | "confirmed" | "finalized"   the entry has err = null
ReverseOutcomes(sig) ==
    IF sig = 0 THEN {"http", "absent"}
    ELSE {"http", "absent", "err", "processed", "confirmed", "finalized"}

\* part_002 has no reverse lookup: nothing is asked of that path
ReverseAnswers(r, sig) == IF r = 1 THEN ReverseOutcomes(sig) ELSE {"none"}

Commitments == {"processed", "confirmed", "finalized"}

\* processed < confirmed < finalized
Level(c) == CASE c = "processed" -> 1 [] c = "confirmed" -> 2 [] c = "finalized" -> 3 [] OTHER -> 0

\* part_001, lines 324-325
isConfirmedProcessedToo(status) == status \in {"processed", "confirmed", "finalized"}

isConfirmed1(status) == status = "confirmed" \/ status = "finalized"

confirmErrIgnored(outcome) ==
    CASE outcome = "http" -> "throw_rpc"
      [] outcome = "null" -> "false"
      [] outcome = "err"  -> "false"
      [] OTHER            -> IF isConfirmed1(outcome) THEN "true" ELSE "false"

\* true only at the level asked for, false again once the status is finalized
confirmOnlyConfirmed(outcome) ==
    CASE outcome = "http" -> "throw_rpc"
      [] outcome = "null" -> "false"
      [] outcome = "err"  -> "throw_onchain"
      [] OTHER            -> IF outcome = "confirmed" THEN "true" ELSE "false"

\* part_001, lines 291-334: "true" | "false" | the error it throws
confirmTransaction1(outcome) ==
    CASE outcome = "http" -> "throw_rpc"
      [] outcome = "null" -> "false"
      [] outcome = "err"  -> "throw_onchain"
      [] OTHER            -> IF isConfirmed1(outcome) THEN "true" ELSE "false"

\* part_002, lines 557-600
confirmTransaction2(outcome, c) ==
    CASE outcome = "http" -> "throw_rpc"
      [] outcome = "null" -> "false"
      [] outcome = "err"  -> "throw_onchain"
      [] OTHER            -> IF outcome = c THEN "true" ELSE "false"

confirmTransaction(r, outcome, c) ==
    IF r = 1 THEN confirmTransaction1(outcome) ELSE confirmTransaction2(outcome, c)

\* an entry with err is read as not yet confirmed
byAddressErrAsFalse(outcome) ==
    CASE outcome = "http"   -> "throw_rpc"
      [] outcome = "absent" -> "false"
      [] outcome = "err"    -> "false"
      [] OTHER              -> IF outcome = "confirmed" \/ outcome = "finalized"
                               THEN "true" ELSE "false"

\* part_001, lines 336-387
confirmTransactionByAddress(outcome) ==
    CASE outcome = "http"   -> "throw_rpc"
      [] outcome = "absent" -> "false"
      [] outcome = "err"    -> "throw_onchain"
      [] OTHER              -> IF outcome = "confirmed" \/ outcome = "finalized"
                               THEN "true" ELSE "false"

ThrownKind(res) == IF res = "throw_onchain" THEN "onchain" ELSE "rpc"

----------------------------------------------------------------------------
(* sendAndConfirmTransaction *)

\* tx.lastValidBlockHeight as the caller set it (-1 = not set)
CallerLastValid == {-1} \cup (0 .. MaxInitHeight + 1)

\* the fee responses a submission is run against
SubmitFeeResponses ==
    {[kind |-> "netfail", fees |-> <<>>],
     [kind |-> "ok", fees |-> <<160004>>]}

\* lastValidBlockHeight = blockheight + 100 (part_001, line 407)
Window == 100

PriorityFeeInstruction(r, est) ==
    [op |-> "setComputeUnitPrice",
     microLamports |-> IF r = 1 THEN est.high ELSE est.medium]

Inc(n) == Min(n + 1, MaxSends)

\* the wallet of the controller (this.keypair, signers[0]) alone, or the wallet and
\* a second keypair such as the one of a new position; the calls of part_001 are
\* made on a transaction of two signers with one or both of them passed, those of
\* part_002 on a transaction of one or of two signers
SignerSets == {{"wallet"}, {"wallet", "position"}}

\* tx.sign with one of the signers left out
SignWithFirstOnly(r, s) == {"wallet"} \cap (IF r = 1 THEN s ELSE {"wallet"})

\* part_001 line 413: tx.sign(...signers); part_002 line 624: tx.sign(this.keypair)
SignWith(r, s) == IF r = 1 THEN s ELSE {"wallet"}

\* serialize without the verification of the signatures
SerializeUnverified(required, signed) == TRUE

\* lines 415 / 626: tx.serialize() throws unless every required signer has signed
SerializeOk(required, signed) == required \subseteq signed

InitSubmit ==
    /\ rev \in Revisions
    /\ feeResp = [kind |-> "none", fees |-> <<>>]
    /\ feeEst = NoFees
    /\ feeCalls = 0
    /\ pc = "fee"
    /\ commitment \in (IF rev = 1 THEN {"confirmed"} ELSE Commitments)
    /\ txInstrs = <<[op |-> "callerInstruction", microLamports |-> 0]>>
    /\ txLastValid \in CallerLastValid
    /\ blockheight = -1
    /\ lastValidBlockHeight = -1
    /\ signature = 0
    /\ nSigned = 0
    /\ nSent = 0
    /\ rpcDirect = "none"
    /\ rpcReverse = "none"
    /\ checkSig = 0
    /\ checkDirect = "none"
    /\ checkReverse = "none"
    /\ retSig = 0
    /\ errKind = "none"
    /\ txSigners \in (IF rev = 1 THEN {{"wallet", "position"}} ELSE SignerSets)
    /\ signers \in (IF rev = 1 THEN SignerSets ELSE {{}})
    /\ signedBy = {}
    /\ PoolIdle
    /\ OtherIdle

\* lines 394-403 (part_001), 608-617 (part_002): estimate, build and push the instruction
FetchFees ==
    /\ pc = "fee"
    /\ UNCHANGED notSubmitVars
    /\ UNCHANGED signVars
    /\ \E resp \in SubmitFeeResponses :
          /\ feeResp' = resp
          /\ feeEst' = fetchEstimatePriorityFees(rev, resp)
          /\ txInstrs' = Append(txInstrs, PriorityFeeInstruction(rev, feeEst'))
    /\ feeCalls' = feeCalls + 1
    /\ pc' = "height"
    /\ UNCHANGED <<rev, commitment, txLastValid, blockheight, lastValidBlockHeight, signature,
                   nSigned, nSent, rpcVars, checkVars, endVars>>

\* part_001, lines 405-408: the window is set by the call itself
GetBlockHeight1 ==
    /\ pc = "height" /\ rev = 1
    /\ UNCHANGED notSubmitVars
    /\ UNCHANGED signVars
    /\ \E h \in 0 .. MaxInitHeight :
          /\ blockheight' = h
          /\ lastValidBlockHeight' = h + Window
          /\ txLastValid' = h + Window
    /\ pc' = "loop"
    /\ UNCHANGED <<feeVars, commitment, txInstrs, signature, nSigned, nSent,
                   rpcVars, checkVars, endVars>>

\* part_002, lines 619-620: the window is the one the caller set on tx
GetBlockHeight2 ==
    /\ pc = "height" /\ rev = 2
    /\ UNCHANGED notSubmitVars
    /\ UNCHANGED signVars
    /\ \E h \in 0 .. MaxInitHeight : blockheight' = h
    /\ lastValidBlockHeight' = txLastValid
    /\ pc' = "loop"
    /\ UNCHANGED <<feeVars, commitment, txInstrs, txLastValid, signature, nSigned, nSent,
                   rpcVars, checkVars, endVars>>

GuardLessOrEqual(h, lv) == lv # -1 /\ h <= lv

\* while (blockheight < lastValidBlockHeight); a comparison with undefined is false
LoopGuard(h, lv) == lv # -1 /\ h < lv

\* the estimate and the instruction are made again on every iteration
LoopEnterReappend ==
    /\ pc = "loop"
    /\ UNCHANGED notSubmitVars
    /\ signedBy' = SignWith(rev, signers)
    /\ UNCHANGED <<signers, txSigners>>
    /\ LoopGuard(blockheight, lastValidBlockHeight)
    /\ nSigned' = Inc(nSigned)
    /\ feeCalls' = Min(feeCalls + 1, MaxSends + 1)
    /\ txInstrs' = IF Len(txInstrs) <= MaxSends
                   THEN Append(txInstrs, PriorityFeeInstruction(rev, feeEst))
                   ELSE txInstrs
    /\ pc' = "send"
    /\ UNCHANGED <<rev, feeResp, feeEst, commitment, txLastValid, blockheight,
                   lastValidBlockHeight, signature, nSent, rpcVars, checkVars, endVars>>

\* lines 412-413 / 623-624: the guard holds, the transaction is signed
LoopEnter ==
    /\ pc = "loop"
    /\ UNCHANGED notSubmitVars
    /\ signedBy' = SignWith(rev, signers)
    /\ UNCHANGED <<signers, txSigners>>
    /\ LoopGuard(blockheight, lastValidBlockHeight)
    /\ nSigned' = Inc(nSigned)
    /\ pc' = "send"
    /\ UNCHANGED <<feeVars, commitment, txInstrs, txLastValid, blockheight, lastValidBlockHeight,
                   signature, nSent, rpcVars, checkVars, endVars>>

\* the guard fails: control goes to the check after the loop; the two read paths
\* will answer that check with rpcDirect and rpcReverse
LoopExit ==
    /\ pc = "loop"
    /\ UNCHANGED notSubmitVars
    /\ UNCHANGED signVars
    /\ ~LoopGuard(blockheight, lastValidBlockHeight)
    /\ rpcDirect' \in DirectOutcomes(signature)
    /\ rpcReverse' \in ReverseAnswers(rev, signature)
    /\ pc' = "finalDirect"
    /\ UNCHANGED <<feeVars, callVars, checkVars, endVars>>

\* lines 415-417 / 626-628: sendRawTransaction resolves with a signature
SendOk ==
    /\ pc = "send"
    /\ UNCHANGED notSubmitVars
    /\ UNCHANGED signVars
    /\ SerializeOk(txSigners, signedBy)
    /\ nSent' = Inc(nSent)
    /\ signature' = nSent'
    /\ pc' = "sleep"
    /\ UNCHANGED <<feeVars, commitment, txInstrs, txLastValid, blockheight, lastValidBlockHeight,
                   nSigned, rpcVars, checkVars, endVars>>

\* tx.serialize() throws on a missing signature: nothing in the loop catches it
SerializeFail ==
    /\ pc = "send"
    /\ UNCHANGED notSubmitVars
    /\ UNCHANGED signVars
    /\ ~SerializeOk(txSigners, signedBy)
    /\ pc' = "thrown"
    /\ errKind' = "serialize"
    /\ UNCHANGED <<feeVars, callVars, rpcVars, checkVars, retSig>>

\* sendRawTransaction rejects: nothing in the loop catches it
SendFail ==
    /\ pc = "send"
    /\ UNCHANGED notSubmitVars
    /\ UNCHANGED signVars
    /\ SerializeOk(txSigners, signedBy)
    /\ pc' = "thrown"
    /\ errKind' = "broadcast"
    /\ UNCHANGED <<feeVars, callVars, rpcVars, checkVars, retSig>>

\* lines 420 / 631: await new Promise((resolve) => setTimeout(resolve, 500)); the two
\* read paths will answer the check that follows with rpcDirect and rpcReverse
Sleep ==
    /\ pc = "sleep"
    /\ UNCHANGED notSubmitVars
    /\ UNCHANGED signVars
    /\ rpcDirect' \in DirectOutcomes(signature)
    /\ rpcReverse' \in ReverseAnswers(rev, signature)
    /\ pc' = "direct"
    /\ UNCHANGED <<feeVars, callVars, checkVars, endVars>>

\* the call returns the signature of its first broadcast
ReturnFirstSignature ==
    /\ pc' = "returned" /\ retSig' = Min(signature, 1) /\ errKind' = errKind

\* the call returns the signature
Return ==
    /\ pc' = "returned" /\ retSig' = signature /\ errKind' = errKind

\* the call throws
Throw(kind) ==
    /\ pc' = "thrown" /\ retSig' = retSig /\ errKind' = kind

\* the call goes on at position p
GoOn(p) ==
    /\ pc' = p /\ retSig' = retSig /\ errKind' = errKind

\* part_001 lines 422-427, part_002 lines 633-635: confirmTransaction(signature) in the loop
DirectInLoop(o) ==
    LET res == confirmTransaction(rev, o, commitment)
    IN  /\ checkSig' = signature
        /\ checkReverse' = "none"
        /\ CASE res = "true" ->
                  Return /\ checkDirect' = o /\ UNCHANGED rpcVars
             [] res = "false" /\ rev = 1 ->
                  GoOn("reverse") /\ checkDirect' = o /\ UNCHANGED rpcVars
             [] res = "false" /\ rev = 2 ->
                  \* part_002: back to the guard, the block height is not read again
                  GoOn("loop") /\ checkDirect' = "none"
                  /\ rpcDirect' = "none" /\ rpcReverse' = "none"
             [] OTHER ->
                  Throw(ThrownKind(res)) /\ checkDirect' = o /\ UNCHANGED rpcVars

ConfirmDirect ==
    /\ pc = "direct"
    /\ UNCHANGED notSubmitVars
    /\ UNCHANGED signVars
    /\ DirectInLoop(rpcDirect)
    /\ UNCHANGED <<feeVars, callVars>>

\* part_001 line 424: the right operand of ||, evaluated when the left one is false
ReverseInLoop(o) ==
    LET res == confirmTransactionByAddress(o)
    IN  CASE res = "true" ->
               Return /\ checkReverse' = o /\ UNCHANGED <<checkDirect, rpcVars>>
          [] res = "false" ->
               GoOn("refresh") /\ checkReverse' = "none" /\ checkDirect' = "none"
               /\ rpcDirect' = "none" /\ rpcReverse' = "none"
          [] OTHER ->
               Throw(ThrownKind(res)) /\ checkReverse' = o /\ UNCHANGED <<checkDirect, rpcVars>>

ConfirmReverse ==
    /\ pc = "reverse"
    /\ UNCHANGED notSubmitVars
    /\ UNCHANGED signVars
    /\ ReverseInLoop(rpcReverse)
    /\ UNCHANGED <<feeVars, callVars, checkSig>>

RefreshStale(h, lv) == {h}

\* the heights a later getBlockHeight() may return: never below the last one
RefreshHeights(h, lv) == h .. Max(h, lv + MaxOvershoot)

\* part_001 line 429: blockheight = await this.connection.getBlockHeight()
RefreshTo(h) ==
    /\ pc = "refresh"
    /\ UNCHANGED notSubmitVars
    /\ UNCHANGED signVars
    /\ h \in RefreshHeights(blockheight, lastValidBlockHeight)
    /\ blockheight' = h
    /\ pc' = "loop"
    /\ UNCHANGED <<feeVars, commitment, txInstrs, txLastValid, lastValidBlockHeight,
                   signature, nSigned, nSent, rpcVars, checkVars, endVars>>

Refresh == \E h \in 0 .. (MaxInitHeight + Window + MaxOvershoot) : RefreshTo(h)

\* a refresh that observes the window closed
RefreshExpired ==
    \E h \in 0 .. (MaxInitHeight + Window + MaxOvershoot) :
        /\ h >= lastValidBlockHeight
        /\ RefreshTo(h)

DirectFinalNoReverse(o) ==
    LET res == confirmTransaction(rev, o, commitment)
    IN  /\ checkSig' = signature
        /\ checkDirect' = o
        /\ checkReverse' = "none"
        /\ CASE res = "true"  -> Return
             [] res = "false" -> Throw("expired")
             [] OTHER         -> Throw(ThrownKind(res))

\* the check after the loop (part_001 lines 433-434, part_002 lines 639-643)
DirectFinal(o) ==
    LET res == confirmTransaction(rev, o, commitment)
    IN  /\ checkSig' = signature
        /\ checkDirect' = o
        /\ checkReverse' = "none"
        /\ CASE res = "true"             -> Return
             [] res = "false" /\ rev = 1 -> GoOn("finalReverse")
             [] res = "false" /\ rev = 2 -> Throw("expired")
             [] OTHER                    -> Throw(ThrownKind(res))

FinalDirect ==
    /\ pc = "finalDirect"
    /\ UNCHANGED notSubmitVars
    /\ UNCHANGED signVars
    /\ DirectFinal(rpcDirect)
    /\ UNCHANGED <<feeVars, callVars, rpcVars>>

\* part_001 lines 435-440
ReverseFinal(o) ==
    LET res == confirmTransactionByAddress(o)
    IN  /\ checkReverse' = o
        /\ CASE res = "true"  -> Return
             [] res = "false" -> Throw("expired")
             [] OTHER         -> Throw(ThrownKind(res))

FinalReverse ==
    /\ pc = "finalReverse"
    /\ UNCHANGED notSubmitVars
    /\ UNCHANGED signVars
    /\ ReverseFinal(rpcReverse)
    /\ UNCHANGED <<feeVars, callVars, rpcVars, checkSig, checkDirect>>

Done == pc \in {"returned", "thrown"}

NextSubmit ==
    \/ FetchFees
    \/ GetBlockHeight1
    \/ GetBlockHeight2
    \/ LoopEnter
    \/ LoopExit
    \/ SendOk
    \/ SerializeFail
    \/ SendFail
    \/ Sleep
    \/ ConfirmDirect
    \/ ConfirmReverse
    \/ Refresh
    \/ FinalDirect
    \/ FinalReverse

SpecSubmit == InitSubmit /\ [][NextSubmit]_vars

\* Every RPC call returns (the call always takes its next step), and the observed
\* block height, read again and again, eventually is at or past lastValidBlockHeight.
FairSubmit == SpecSubmit /\ WF_vars(NextSubmit) /\ SF_vars(RefreshExpired)

----------------------------------------------------------------------------
(* Properties of sendAndConfirmTransaction *)

\* C1: in part_001, when every RPC call returns and the observed block height
\* eventually reaches the initial height + 100, every call of
\* sendAndConfirmTransaction ends: it returns a signature or throws.
C1_Terminates == (rev = 1) => <>(pc = "returned" \/ pc = "thrown")

\* a part_001 call that ended by expiry after it broadcast again and again
C1_Witness ==
    /\ rev = 1 /\ pc = "thrown" /\ errKind = "expired"
    /\ nSent = MaxSends /\ blockheight >= lastValidBlockHeight

\* C2: the transaction is signed and broadcast only while the block height observed
\* last is strictly below lastValidBlockHeight; once a height at or above it was
\* observed, there is no further sign or broadcast in that call.
C2_NoBroadcastPastWindow ==
    [][ ((pc = "loop" /\ pc' = "send") \/ (pc = "send" /\ pc' # "send"))
          => (lastValidBlockHeight # -1 /\ blockheight < lastValidBlockHeight) ]_vars
    /\ [][ (pc \notin {"fee", "height"}
            /\ (lastValidBlockHeight = -1 \/ blockheight >= lastValidBlockHeight))
          => (pc' \notin {"send", "sleep"} /\ nSigned' = nSigned /\ nSent' = nSent
              /\ signature' = signature) ]_vars

\* the window was observed closed after at least one broadcast
C2_Witness ==
    /\ pc = "finalDirect" /\ nSent >= 1
    /\ blockheight >= lastValidBlockHeight

\* C3: a status with a non-null on-chain error, returned by the direct lookup, ends
\* the call with an error, and nothing is signed, broadcast or checked after it.
C3_FailedIsTerminal ==
    /\ [](checkDirect = "err" => (pc = "thrown" /\ errKind = "onchain"))
    /\ [][pc = "thrown" => UNCHANGED vars]_vars

\* the direct lookup reported an on-chain error for a broadcast signature
C3_Witness ==
    /\ checkDirect = "err" /\ pc = "thrown" /\ checkSig >= 1 /\ nSent >= 1

SuccessAnswers == {"confirmed", "finalized"}

\* C4: in part_001, whenever one of the two read paths answers confirmed or finalized
\* with no error (and the other answers anything but an on-chain error, an RPC error
\* included), the check counts as confirmed and the signature is returned.
C4_EitherPathConfirms ==
    (/\ rev = 1
     /\ pc \in {"returned", "thrown"}
     /\ checkDirect # "none"
     /\ (rpcDirect \in SuccessAnswers \/ rpcReverse \in SuccessAnswers)
     /\ rpcDirect # "err" /\ rpcReverse # "err")
    => (pc = "returned" /\ retSig = checkSig)

\* C5: a call of sendAndConfirmTransaction ends with an error only by an on-chain
\* execution error or by the expiry of the window: the failure of one RPC call in
\* the loop is never raised to the caller.
C5_OnlyTerminalErrorsSurface ==
    pc = "thrown" => errKind \in {"onchain", "expired"}

\* C6: the expiration error is raised only after an observed height at or above
\* lastValidBlockHeight ended the loop and the check made after it found the
\* signature unconfirmed on every read path; a final check that reports confirmed
\* returns the signature.
C6_ExpiredOnlyAfterFinalCheck ==
    /\ errKind = "expired" =>
          /\ pc = "thrown"
          /\ (lastValidBlockHeight = -1 \/ blockheight >= lastValidBlockHeight)
          /\ checkSig = signature
          /\ checkDirect \in {"null", "processed", "confirmed", "finalized"}
          /\ (checkDirect \in {"confirmed", "finalized"} => (rev = 2 /\ checkDirect # commitment))
          /\ (rev = 1 => checkReverse \in {"absent", "processed"})
    /\ (/\ pc \in {"returned", "thrown"}
        /\ checkDirect # "none"
        /\ (lastValidBlockHeight = -1 \/ blockheight >= lastValidBlockHeight)
        /\ \/ (rev = 1 /\ checkDirect \in SuccessAnswers)
           \/ (rev = 1 /\ checkDirect \in {"null", "processed"} /\ checkReverse \in SuccessAnswers)
           \/ (rev = 2 /\ checkDirect = commitment))
       => (pc = "returned" /\ retSig = signature)

\* part_001: the window closed after a broadcast, both paths found nothing
C6_Witness ==
    /\ rev = 1 /\ errKind = "expired" /\ nSent >= 1
    /\ checkDirect = "null" /\ checkReverse = "absent"

\* C7: a signature is returned only if a confirmation check on that signature saw a
\* status with null error at or above the requested commitment level
\* (processed < confirmed < finalized).
C7_ReturnedOnlyIfConfirmed ==
    pc = "returned" =>
        /\ retSig >= 1
        /\ retSig = checkSig
        /\ \/ Level(checkDirect) >= Level(commitment)
           \/ Level(checkReverse) >= Level(commitment)

\* part_002: a request for 'finalized' answered by a finalized status
C7_Witness ==
    /\ pc = "returned" /\ rev = 2 /\ commitment = "finalized" /\ checkDirect = "finalized"

----------------------------------------------------------------------------
(* getDlmmPool: the pool cache shared by all requests *)

InitPool ==
    /\ PoolIdle
    /\ rev = 1
    /\ feeResp = [kind |-> "none", fees |-> <<>>]
    /\ feeEst = NoFees
    /\ feeCalls = 0
    /\ TxIdle
    /\ OtherIdle

\* the promise a construction started now is given
FreshPromise == CHOOSE k \in PromiseIds : promState[k] = "unused" /\
                    \A j \in PromiseIds : promState[j] = "unused" => k <= j

StorePromiseForgotten(m, a, k) == m

\* line 31: dlmmPoolPromises.set(poolAddress, dlmmPoolPromise)
StorePromise(m, a, k) == [m EXCEPT ![a] = k]

\* a cached instance is handed out and a new construction is started all the same
CallCachedRecreate(c, a) ==
    /\ dlmmPools[a] # 0
    /\ callState' = [callState EXCEPT ![c] = "got"]
    /\ callResult' = [callResult EXCEPT ![c] = dlmmPools[a]]
    /\ callPromise' = [callPromise EXCEPT ![c] = 0]
    /\ createCount' = [createCount EXCEPT ![a] = @ + 1]
    /\ UNCHANGED <<dlmmPools, dlmmPoolPromises, promState, promAddr>>

\* lines 14-16: the instance is cached, the call resolves to it
CallCached(c, a) ==
    /\ dlmmPools[a] # 0
    /\ callState' = [callState EXCEPT ![c] = "got"]
    /\ callResult' = [callResult EXCEPT ![c] = dlmmPools[a]]
    /\ callPromise' = [callPromise EXCEPT ![c] = 0]
    /\ UNCHANGED <<dlmmPools, dlmmPoolPromises, promState, promAddr, createCount>>

\* lines 18-20: a construction is in the promise map, the call awaits it
CallInFlight(c, a) ==
    /\ dlmmPools[a] = 0
    /\ dlmmPoolPromises[a] # 0
    /\ callState' = [callState EXCEPT ![c] = "waiting"]
    /\ callResult' = [callResult EXCEPT ![c] = 0]
    /\ callPromise' = [callPromise EXCEPT ![c] = dlmmPoolPromises[a]]
    /\ UNCHANGED <<dlmmPools, dlmmPoolPromises, promState, promAddr, createCount>>

\* lines 23-33: DLMM.create is invoked, its promise is stored and awaited
CallCreate(c, a) ==
    /\ dlmmPools[a] = 0
    /\ dlmmPoolPromises[a] = 0
    /\ LET k == FreshPromise
       IN  /\ createCount' = [createCount EXCEPT ![a] = @ + 1]
           /\ promState' = [promState EXCEPT ![k] = "pending"]
           /\ promAddr' = [promAddr EXCEPT ![k] = a]
           /\ dlmmPoolPromises' = StorePromise(dlmmPoolPromises, a, k)
           /\ callPromise' = [callPromise EXCEPT ![c] = k]
    /\ callState' = [callState EXCEPT ![c] = "waiting"]
    /\ callResult' = [callResult EXCEPT ![c] = 0]
    /\ UNCHANGED dlmmPools

\* One call of getDlmmPool(poolAddress): it runs to its return without an await
GetDlmmPool(c, a) ==
    /\ callState[c] # "waiting"
    /\ nCalls < MaxCalls
    /\ nCalls' = nCalls + 1
    /\ callAddr' = [callAddr EXCEPT ![c] = a]
    /\ callEarly' = [callEarly EXCEPT ![c] = (dlmmPools[a] = 0)]
    /\ (CallCached(c, a) \/ CallInFlight(c, a) \/ CallCreate(c, a))
    /\ UNCHANGED notPoolVars

\* the then-callback stores the instance and leaves the promise in its map
CreateResolvedKeepsPromise(k) ==
    /\ promState[k] = "pending"
    /\ promState' = [promState EXCEPT ![k] = "fulfilled"]
    /\ dlmmPools' = [dlmmPools EXCEPT ![promAddr[k]] = k]
    /\ UNCHANGED <<dlmmPoolPromises, promAddr, createCount, callState, callAddr, callPromise,
                   callResult, callEarly, nCalls>>
    /\ UNCHANGED notPoolVars

\* lines 25-29: DLMM.create resolved, the then-callback moves the instance (named
\* after its promise) into dlmmPools and removes the promise
CreateResolved(k) ==
    /\ promState[k] = "pending"
    /\ promState' = [promState EXCEPT ![k] = "fulfilled"]
    /\ dlmmPools' = [dlmmPools EXCEPT ![promAddr[k]] = k]
    /\ dlmmPoolPromises' = [dlmmPoolPromises EXCEPT ![promAddr[k]] = 0]
    /\ UNCHANGED <<promAddr, createCount, callState, callAddr, callPromise, callResult,
                   callEarly, nCalls>>
    /\ UNCHANGED notPoolVars

\* DLMM.create rejected: the then-callback does not run, the maps stay as they are
CreateRejected(k) ==
    /\ promState[k] = "pending"
    /\ promState' = [promState EXCEPT ![k] = "rejected"]
    /\ UNCHANGED <<dlmmPools, dlmmPoolPromises, promAddr, createCount, callState, callAddr,
                   callPromise, callResult, callEarly, nCalls>>
    /\ UNCHANGED notPoolVars

\* the promise a caller awaits is settled: its call resolves or rejects
Settle(c) ==
    /\ callState[c] = "waiting"
    /\ promState[callPromise[c]] \in {"fulfilled", "rejected"}
    /\ IF promState[callPromise[c]] = "fulfilled"
       THEN /\ callState' = [callState EXCEPT ![c] = "got"]
            /\ callResult' = [callResult EXCEPT ![c] = callPromise[c]]
       ELSE /\ callState' = [callState EXCEPT ![c] = "failed"]
            /\ callResult' = callResult
    /\ UNCHANGED <<dlmmPools, dlmmPoolPromises, promState, promAddr, createCount,
                   callAddr, callPromise, callEarly, nCalls>>
    /\ UNCHANGED notPoolVars

NextPool ==
    \/ \E c \in Callers, a \in Addrs : GetDlmmPool(c, a)
    \/ \E k \in PromiseIds : CreateResolved(k)
    \/ \E k \in PromiseIds : CreateRejected(k)
    \/ \E c \in Callers : Settle(c)

SpecPool == InitPool /\ [][NextPool]_vars

\* C8: however many getDlmmPool calls for one address are issued before the first
\* construction for it has resolved, DLMM.create is invoked exactly once for that
\* address, the calls await that one construction, and all that resolve, resolve
\* to the same instance.
C8_OneConstructionPerAddress ==
    /\ \A c \in Callers :
          (callState[c] # "idle" /\ callEarly[c]) => createCount[callAddr[c]] = 1
    /\ \A c, d \in Callers :
          (/\ callState[c] = "waiting" /\ callState[d] = "waiting"
           /\ callAddr[c] = callAddr[d])
          => callPromise[c] = callPromise[d]
    /\ \A c, d \in Callers :
          (/\ callState[c] = "got" /\ callState[d] = "got"
           /\ callEarly[c] /\ callEarly[d]
           /\ callAddr[c] = callAddr[d])
          => callResult[c] = callResult[d]

\* three calls for one address, all issued before the construction resolved, all
\* resolved
C8_Witness ==
    \E a \in Addrs :
        /\ \A c \in Callers : callState[c] = "got" /\ callEarly[c] /\ callAddr[c] = a
        /\ createCount[a] = 1

----------------------------------------------------------------------------
(* SpecFee: one call of fetchEstimatePriorityFees on an arbitrary response *)

InitFee ==
    /\ rev \in Revisions
    /\ feeResp \in FeeResponses
    /\ feeEst = NoFees
    /\ feeCalls = 0
    /\ TxIdle
    /\ PoolIdle
    /\ OtherIdle

FeeCall ==
    /\ feeCalls = 0
    /\ feeEst' = fetchEstimatePriorityFees(rev, feeResp)
    /\ feeCalls' = 1
    /\ UNCHANGED <<rev, feeResp>>
    /\ UNCHANGED notFeeVars

NextFee == FeeCall

SpecFee == InitFee /\ [][NextFee]_vars

\* C9: in part_001, for every response of the fee request (any list of samples, the
\* empty one and every failure included) the schedule returned satisfies
\* low <= medium <= high <= extreme, and each tier is at least its floor
\* (10000, 20000, 30000, 40000).
C9_TiersOrderedAndFloored ==
    (rev = 1 /\ feeCalls = 1) =>
        /\ feeEst.low <= feeEst.medium
        /\ feeEst.medium <= feeEst.high
        /\ feeEst.high <= feeEst.extreme
        /\ feeEst.low >= 10000
        /\ feeEst.medium >= 20000
        /\ feeEst.high >= 30000
        /\ feeEst.extreme >= 40000

\* a schedule with a tier at its floor and a tier computed from the samples
C9_Witness ==
    /\ rev = 1 /\ feeCalls = 1 /\ feeResp.kind = "ok"
    /\ feeEst.low = 10000 /\ feeEst.extreme = 40001

ExampleSamples == <<0, 0, 5000, 10000, 20000>>

ExampleResponse == [kind |-> "ok", fees |-> ExampleSamples]

\* C10 as stated: for the samples [0, 0, 5000, 10000, 20000] the schedule returned is
\* low = 5000, medium = 10000, high = 15000, extreme = 20000.
C10_ExampleAsStated ==
    (feeCalls = 1 /\ feeResp = ExampleResponse) =>
        feeEst = [low |-> 5000, medium |-> 10000, high |-> 15000, extreme |-> 20000]

\* C10 as amended: for the samples [0, 0, 5000, 10000, 20000] the zero samples are
\* discarded and max = 20000; the part_002 revision returns 5000 / 10000 / 15000 /
\* 20000, and part_001 raises each of these to its floor and returns
\* 10000 / 20000 / 30000 / 40000.
C10_ExampleByRevision ==
    (feeCalls = 1 /\ feeResp = ExampleResponse) =>
        /\ rev = 2 =>
              feeEst = [low |-> 5000, medium |-> 10000, high |-> 15000, extreme |-> 20000]
        /\ rev = 1 =>
              feeEst = [low |-> 10000, medium |-> 20000, high |-> 30000, extreme |-> 40000]

\* part_001 has answered the example
C10_Witness ==
    /\ feeCalls = 1 /\ feeResp = ExampleResponse /\ rev = 1
    /\ feeEst.low = 10000

\* C11: fetchEstimatePriorityFees never raises: for a network exception, a non-OK
\* HTTP response and a body without a usable result list the call returns a
\* schedule hardcoded in its revision (part_001: 10000/20000/30000/40000;
\* part_002: 0/0/0/8000 on a non-OK response, 2000/4000/6000/8000 from the catch
\* block), in which each of the four tiers is a number.
C11_FailureYieldsFallback ==
    (feeCalls = 1 /\ feeResp.kind \in {"netfail", "http", "badbody"}) =>
        /\ rev = 1 =>
              feeEst = [low |-> 10000, medium |-> 20000, high |-> 30000, extreme |-> 40000]
        /\ rev = 2 =>
              feeEst \in {[low |-> 0, medium |-> 0, high |-> 0, extreme |-> 8000],
                          [low |-> 2000, medium |-> 4000, high |-> 6000, extreme |-> 8000]}
        /\ \A t \in {"low", "medium", "high", "extreme"} : feeEst[t] >= 0

\* part_002 answered a network exception from its catch block
C11_Witness ==
    /\ feeCalls = 1 /\ rev = 2 /\ feeResp.kind = "netfail"
    /\ feeEst.low = 2000 /\ feeEst.extreme = 8000

\* C12: when the result list has no sample greater than zero (it is empty or all
\* its samples are zero) the call returns exactly the schedule it returns when the
\* request fails.
C12_NoSampleYieldsFallback ==
    (feeCalls = 1 /\ feeResp.kind = "ok" /\ \A i \in DOMAIN feeResp.fees : feeResp.fees[i] = 0) =>
        /\ rev = 1 =>
              feeEst = [low |-> 10000, medium |-> 20000, high |-> 30000, extreme |-> 40000]
        /\ rev = 2 =>
              feeEst \in {[low |-> 0, medium |-> 0, high |-> 0, extreme |-> 8000],
                          [low |-> 2000, medium |-> 4000, high |-> 6000, extreme |-> 8000]}

\* C19: sendAndConfirmTransaction changes the caller's tx only by appending the fee
\* instruction: in every step the instructions already in tx keep their position
\* and content, and tx.lastValidBlockHeight keeps the value the caller gave it.
C19_TxOnlyAppended ==
    [][/\ Len(txInstrs') >= Len(txInstrs)
       /\ \A i \in DOMAIN txInstrs : txInstrs'[i] = txInstrs[i]
       /\ txLastValid' = txLastValid]_vars

\* C20: the estimator is called once and one compute-unit-price instruction (priced
\* at the high tier in part_001, at the medium tier in part_002) is appended after
\* the caller's instructions, both before the first tx.sign; from then on, whatever
\* the number of iterations, there is still one call and one such instruction.
C20_OneEstimateOneInstruction ==
    /\ pc = "fee" => (feeCalls = 0 /\ nSigned = 0 /\ Len(txInstrs) = 1)
    /\ pc # "fee" =>
          /\ feeCalls = 1
          /\ Len(txInstrs) = 2
          /\ txInstrs[1].op = "callerInstruction"
          /\ txInstrs[2].op = "setComputeUnitPrice"
          /\ rev = 1 => txInstrs[2].microLamports = feeEst.high
          /\ rev = 2 => txInstrs[2].microLamports = feeEst.medium

\* the transaction was signed a second time, one estimate and one instruction
C20_Witness ==
    /\ nSigned = 2 /\ nSent >= 1 /\ feeCalls = 1 /\ Len(txInstrs) = 2

----------------------------------------------------------------------------
(* SpecOracle: repeated calls of confirmTransaction while the cluster advances *)
(* the status of the signatures                                              *)

FeeIdle ==
    /\ feeResp = [kind |-> "none", fees |-> <<>>]
    /\ feeEst = NoFees
    /\ feeCalls = 0

InitOracle ==
    /\ rev \in Revisions
    /\ FeeIdle
    /\ TxIdle
    /\ PoolIdle
    /\ LiquidityIdle
    /\ BalanceIdle
    /\ ocCommitment \in (IF rev = 1 THEN {"confirmed"} ELSE Commitments)
    /\ ocStatus = [s \in Sigs |-> "null"]
    /\ ocLast = [s \in Sigs |-> "none"]
    /\ ocEverTrue = [s \in Sigs |-> FALSE]
    /\ ocTarget = 0
    /\ ocHistory = [kind |-> "none", entries |-> <<>>]
    /\ ocByAddress = "none"
    /\ SwapIdle
    /\ ExtractIdle
    /\ OpenIdle

\* the statuses that can follow a status: a transaction is processed (with or
\* without an error), then confirmed, then finalized; nothing is taken back
StatusAfter(status) ==
    CASE status = "null"      -> {"processed", "err"}
      [] status = "processed" -> {"confirmed"}
      [] status = "confirmed" -> {"finalized"}
      [] OTHER                -> {}

\* the cluster advances the status of a signature
StatusAdvance(s) ==
    /\ \E next \in StatusAfter(ocStatus[s]) : ocStatus' = [ocStatus EXCEPT ![s] = next]
    /\ UNCHANGED <<ocCommitment, ocLast, ocEverTrue, ocTarget, ocHistory, ocByAddress>>
    /\ UNCHANGED notOracleVars

\* one call confirmTransaction(s): the request fails or is answered with the status
OracleCall(s) ==
    /\ \E outcome \in {"http", ocStatus[s]} :
          LET res == confirmTransaction(rev, outcome, ocCommitment)
          IN  /\ ocLast' = [ocLast EXCEPT ![s] = res]
              /\ ocEverTrue' = [ocEverTrue EXCEPT ![s] = @ \/ res = "true"]
    /\ UNCHANGED <<ocCommitment, ocStatus, ocTarget, ocHistory, ocByAddress>>
    /\ UNCHANGED notOracleVars

\* the entry of a signature in the address history; a failed transaction has a
\* confirmation status like any other
HistoryEntry(s, status, level) ==
    [signature          |-> s,
     err                |-> IF status = "err" THEN "InstructionError" ELSE "null",
     confirmationStatus |-> IF status = "err" THEN level ELSE status]

\* the entries of the signatures in shown, newest first
RECURSIVE HistoryOf(_, _, _)
HistoryOf(shown, status, level) ==
    IF shown = {} THEN <<>>
    ELSE LET s == CHOOSE x \in shown : \A y \in shown : y <= x
         IN  <<HistoryEntry(s, status[s], level)>> \o HistoryOf(shown \ {s}, status, level)

\* what getSignaturesForAddress can answer: a failed request, a body without
\* result, or the entries of some of the signatures the cluster has processed
Histories(status) ==
    {[kind |-> "http", entries |-> <<>>], [kind |-> "noresult", entries |-> <<>>]}
    \cup {[kind |-> "ok", entries |-> HistoryOf(shown, status, level)] :
              shown \in SUBSET {s \in Sigs : status[s] # "null"}, level \in Commitments}

\* lines 364-368: data.result.find((entry) => entry.signature === signature)
RECURSIVE find(_, _)
find(entries, sig) ==
    IF entries = <<>> THEN [signature |-> 0, err |-> "null", confirmationStatus |-> "none"]
    ELSE IF Head(entries).signature = sig THEN Head(entries)
    ELSE find(Tail(entries), sig)

\* what the answer says about the signature, as confirmTransactionByAddress reads it
AddressOutcome(resp, sig) ==
    LET transactionInfo == find(resp.entries, sig)
    IN  CASE resp.kind = "http"              -> "http"
          [] resp.kind = "noresult"          -> "absent"
          [] transactionInfo.signature = 0   -> "absent"
          [] transactionInfo.err # "null"    -> "err"
          [] OTHER                           -> transactionInfo.confirmationStatus

\* one call confirmTransactionByAddress(address, s) of part_001
OracleCallByAddress(s) ==
    /\ rev = 1
    /\ \E resp \in Histories(ocStatus) :
          /\ ocHistory' = resp
          /\ ocByAddress' = confirmTransactionByAddress(AddressOutcome(resp, s))
    /\ ocTarget' = s
    /\ UNCHANGED <<ocCommitment, ocStatus, ocLast, ocEverTrue>>
    /\ UNCHANGED notOracleVars

NextOracle == \E s \in Sigs : StatusAdvance(s) \/ OracleCall(s) \/ OracleCallByAddress(s)

SpecOracle == InitOracle /\ [][NextOracle]_vars

\* C13: in part_001, once confirmTransaction has returned true for a signature,
\* every later call on that signature that the RPC answers returns true.
C13_ConfirmedStaysConfirmed ==
    \A s \in Sigs :
        (rev = 1 /\ ocEverTrue[s] /\ ocLast[s] # "throw_rpc") => ocLast[s] = "true"

\* a call returned true after the status had moved on to finalized
C13_Witness ==
    \E s \in Sigs :
        rev = 1 /\ ocEverTrue[s] /\ ocStatus[s] = "finalized" /\ ocLast[s] = "true"

----------------------------------------------------------------------------
(* SpecSwap: executeSwap with balance polling (src/unnamed/part_006) *)

\* const maxRetries = 10 (part_006, line 89)
maxRetries == 10

\* getBalance.ts, lines 37 and 64-70: the amount as a decimal string, written
\* here as its integer part and its fraction digits
UiAmount(a) == [whole |-> a \div UiScale, frac |-> a % UiScale]

\* parseFloat of such a string, in units of 1 / UiScale
parseFloat(u) == u.whole * UiScale + u.frac

\* the wallet amounts once the swap has executed: the fee is debited from the SOL
\* balance of the wallet
SwapPost ==
    [in  |-> swPre.in - swEffect.amountIn - (IF swSol = "in" THEN swEffect.fee ELSE 0),
     out |-> swPre.out + swEffect.amountOut - (IF swSol = "out" THEN swEffect.fee ELSE 0)]

InitSwap ==
    /\ rev = 1
    /\ FeeIdle
    /\ TxIdle
    /\ PoolIdle
    /\ LiquidityIdle
    /\ BalanceIdle
    /\ OracleIdle
    /\ ExtractIdle
    /\ OpenIdle
    /\ swPc = "start"
    /\ swSol \in {"in", "out", "none"}
    /\ swPre \in [in : {MaxAmountIn + 2, MaxAmountIn + 14}, out : {0, 7}]
    /\ swEffect \in [amountIn : {2, MaxAmountIn}, amountOut : {1, 3}, fee : {1}]
    /\ swVisible = FALSE
    /\ swBefore = [in |-> NoBalance, out |-> NoBalance]
    /\ swAfter = [in |-> NoBalance, out |-> NoBalance]
    /\ retries = 0
    /\ swReads = 0
    /\ swSleeps = 0
    /\ swTotal = NoTotal
    /\ swSignature = 0

\* lines 34-81: token lookup, DLMM.create, quote, the two balances before, the fee
\* estimate and the swap transaction; any of the awaits may reject
SwapPrepare ==
    /\ swPc = "start"
    /\ \/ /\ swBefore' = [in |-> UiAmount(swPre.in), out |-> UiAmount(swPre.out)]
          /\ swPc' = "submit"
       \/ /\ swPc' = "raised"
          /\ UNCHANGED swBefore
    /\ UNCHANGED <<swSol, swPre, swEffect, swVisible, swAfter, retries, swReads, swSleeps,
                   swTotal, swSignature>>
    /\ UNCHANGED notSwapVars

\* lines 84-87: sendAndConfirmTransaction of @solana/web3.js resolves with the
\* signature or rejects
SwapSubmit ==
    /\ swPc = "submit"
    /\ \/ swPc' = "readIn" /\ swSignature' = 1
       \/ swPc' = "raised" /\ UNCHANGED swSignature
    /\ UNCHANGED <<swSol, swPre, swEffect, swVisible, swBefore, swAfter, retries, swReads,
                   swSleeps, swTotal>>
    /\ UNCHANGED notSwapVars

\* what a read of the wallet shows: the amounts before the swap until the read
\* path has caught up, the amounts after it from then on
Shown(visible) == IF visible THEN SwapPost ELSE swPre

\* line 94: inputTokenAfter = await getBalance(inputToken.symbol)
ReadIn ==
    /\ swPc = "readIn"
    /\ \/ \E v \in (IF swVisible THEN {TRUE} ELSE BOOLEAN) :
             /\ swVisible' = v
             /\ swAfter' = [swAfter EXCEPT !.in = UiAmount(Shown(v).in)]
             /\ swReads' = swReads + 1
             /\ swPc' = "readOut"
       \/ /\ swPc' = "raised"
          /\ UNCHANGED <<swVisible, swAfter, swReads>>
    /\ UNCHANGED <<swSol, swPre, swEffect, swBefore, retries, swSleeps, swTotal, swSignature>>
    /\ UNCHANGED notSwapVars

BalancesBothDiffer(before, after) == before.in # after.in /\ before.out # after.out

\* line 97: inputTokenBefore !== inputTokenAfter || outputTokenBefore !== outputTokenAfter
BalancesDiffer(before, after) == before.in # after.in \/ before.out # after.out

PollAgainInclusive(n) == n <= maxRetries

\* lines 102 and 105: retries < maxRetries
PollAgain(n) == n < maxRetries

\* lines 107-108
Totals(before, after) ==
    [in  |-> parseFloat(before.in) - parseFloat(after.in),
     out |-> parseFloat(after.out) - parseFloat(before.out)]

\* lines 95-108: the output balance is read; a difference breaks the loop, otherwise
\* retries is incremented and the loop sleeps or ends; after the loop the totals
\* are computed and the result is returned
ReadOut ==
    /\ swPc = "readOut"
    /\ \/ \E v \in (IF swVisible THEN {TRUE} ELSE BOOLEAN) :
             LET after == [swAfter EXCEPT !.out = UiAmount(Shown(v).out)]
             IN  /\ swVisible' = v
                 /\ swAfter' = after
                 /\ swReads' = swReads + 1
                 /\ IF BalancesDiffer(swBefore, after)
                    THEN /\ swPc' = "done"
                         /\ swTotal' = Totals(swBefore, after)
                         /\ UNCHANGED <<retries, swSleeps>>
                    ELSE /\ retries' = retries + 1
                         /\ IF PollAgain(retries + 1)
                            THEN /\ swPc' = "sleep"
                                 /\ swSleeps' = swSleeps + 1
                                 /\ UNCHANGED swTotal
                            ELSE /\ swPc' = "done"
                                 /\ swTotal' = Totals(swBefore, after)
                                 /\ UNCHANGED swSleeps
       \/ /\ swPc' = "raised"
          /\ UNCHANGED <<swVisible, swAfter, swReads, retries, swSleeps, swTotal>>
    /\ UNCHANGED <<swSol, swPre, swEffect, swBefore, swSignature>>
    /\ UNCHANGED notSwapVars

\* line 103: the 500 ms timer fires
SleepOver ==
    /\ swPc = "sleep"
    /\ swPc' = "readIn"
    /\ UNCHANGED <<swSol, swPre, swEffect, swVisible, swBefore, swAfter, retries, swReads,
                   swSleeps, swTotal, swSignature>>
    /\ UNCHANGED notSwapVars

NextSwap == SwapPrepare \/ SwapSubmit \/ ReadIn \/ ReadOut \/ SleepOver

SpecSwap == InitSwap /\ [][NextSwap]_vars

\* C14: when no poll round of executeSwap reads a balance different from its
\* before-value, the loop makes exactly 10 rounds (20 reads, 9 sleeps) and the call
\* returns with both swapped amounts zero; the call never raises for having used
\* up its rounds.
C14_ExhaustedPollingReturnsZero ==
    /\ (swPc = "done" /\ swAfter = swBefore) =>
          /\ retries = 10
          /\ swReads = 20
          /\ swSleeps = 9
          /\ swTotal = [in |-> 0, out |-> 0]
    /\ retries <= 10
    /\ swPc = "raised" => retries < 10

\* ten rounds without a change, the result is returned
C14_Witness ==
    /\ swPc = "done" /\ retries = 10 /\ swAfter = swBefore /\ swSignature = 1
    /\ swTotal = [in |-> 0, out |-> 0]

\* C15: the poll round of executeSwap whose reads differ from the before-values
\* (in the input balance or in the output balance) ends the polling: the same step
\* returns, no sleep is started, the amounts reported are input before - after and
\* output after - before of that round's reads, and nothing is read afterwards.
C15_FirstChangeEndsPolling ==
    [][/\ (/\ swPc = "readOut"
           /\ swPc' # "raised"
           /\ (swAfter'.in # swBefore.in \/ swAfter'.out # swBefore.out)) =>
              /\ swPc' = "done"
              /\ swSleeps' = swSleeps
              /\ retries' = retries
              /\ swTotal'.in = parseFloat(swBefore.in) - parseFloat(swAfter'.in)
              /\ swTotal'.out = parseFloat(swAfter'.out) - parseFloat(swBefore.out)
       /\ swPc = "done" => UNCHANGED <<swReads, swSleeps, swAfter, swTotal>>]_vars

\* in the third round the input was read before the swap showed and the output
\* after it: the call returned on the output alone
C15_Witness ==
    /\ swPc = "done" /\ retries = 2 /\ swReads = 6 /\ swSleeps = 2
    /\ swAfter.in = swBefore.in /\ swAfter.out # swBefore.out
    /\ swTotal.in = 0 /\ swTotal.out > 0

\* C16: when the input token is native SOL the input amount that executeSwap
\* reports, once both balances after the swap have been read, is the amount the
\* swap took without the network fee.
C16_SolDeltaExcludesFee ==
    (/\ swPc = "done" /\ swSol = "in"
     /\ swAfter.in = UiAmount(SwapPost.in) /\ swAfter.out = UiAmount(SwapPost.out)) =>
        swTotal.in = swEffect.amountIn

----------------------------------------------------------------------------
(* SpecExtract: extractTokenBalanceChangeAndFee and                        *)
(* extractAccountBalanceChangeAndFee (meteora.controller.ts)               *)

\* for (let attempt = 0; attempt < 20; attempt++)
ExtractAttempts == 20

\* the default is returned after ten attempts
LastAttemptTenth == 10 - 1

\* if (attempt < 19)
LastAttempt == 19

\* / 1_000_000_000: lamports to SOL
LAMPORTS_PER_SOL == 1000000000

InitExtract ==
    /\ rev = 1
    /\ FeeIdle
    /\ TxIdle
    /\ PoolIdle
    /\ LiquidityIdle
    /\ BalanceIdle
    /\ OracleIdle
    /\ SwapIdle
    /\ OpenIdle
    /\ exPc = "loop"
    /\ exKind \in {"token", "account"}
    /\ exTx \in [meta : BOOLEAN, pre : 0 .. MaxBalance, post : 0 .. MaxBalance, fee : 0 .. MaxFee]
    /\ (~exTx.meta => exTx.pre = 0 /\ exTx.post = 0 /\ exTx.fee = 0)
    /\ attempt = 0
    /\ exCalls = 0
    /\ txDetails = FALSE
    /\ exAnswer = "none"
    /\ exResult = NoResult

\* lines 64-78: a balance entry that is missing or whose uiAmount is null counts
\* as 0; uiAmount is the amount in displayed units
TokenChangeAndFee(tx) ==
    [balanceChange |-> Num(tx.post - tx.pre, UiScale),
     fee           |-> Num(tx.fee, LAMPORTS_PER_SOL)]

\* lines 108-115: without meta both balance lists are empty and the difference of
\* two undefined values is NaN
AccountChangeAndFee(tx) ==
    [balanceChange |-> IF tx.meta
                       THEN Num(IF tx.post - tx.pre >= 0 THEN tx.post - tx.pre
                                ELSE tx.pre - tx.post, LAMPORTS_PER_SOL)
                       ELSE Num(0, 0),
     fee           |-> Num(tx.fee, LAMPORTS_PER_SOL)]

ChangeAndFee(kind, tx) ==
    IF kind = "token" THEN TokenChangeAndFee(tx) ELSE AccountChangeAndFee(tx)

\* lines 41-62 / 86-106, one pass of the loop body up to its next await: the
\* request throws, answers null or answers the transaction
ExtractTry ==
    /\ exPc = "loop"
    /\ attempt < ExtractAttempts
    /\ exCalls' = exCalls + 1
    /\ \E answer \in {"throw", "null", "found"} :
          /\ exAnswer' = answer
          /\ IF answer = "found"
             THEN /\ txDetails' = TRUE
                  /\ exResult' = ChangeAndFee(exKind, exTx)
                  /\ exPc' = "returned"
             ELSE /\ UNCHANGED txDetails
                  /\ IF attempt < LastAttempt
                     THEN exPc' = "sleep" /\ UNCHANGED exResult
                     ELSE /\ exPc' = "returned"
                          /\ exResult' = [balanceChange |-> Num(0, 1), fee |-> Num(0, 1)]
    /\ UNCHANGED <<exKind, exTx, attempt>>
    /\ UNCHANGED notExtractVars

\* the 1000 ms timer fires, the loop goes to its next attempt
ExtractWake ==
    /\ exPc = "sleep"
    /\ attempt' = attempt + 1
    /\ exPc' = "loop"
    /\ UNCHANGED <<exKind, exTx, exCalls, txDetails, exAnswer, exResult>>
    /\ UNCHANGED notExtractVars

NextExtract == ExtractTry \/ ExtractWake

SpecExtract == InitExtract /\ [][NextExtract]_vars

\* C17: the balance change that extractTokenBalanceChangeAndFee and
\* extractAccountBalanceChangeAndFee return for a transaction they found is the
\* signed difference post - pre: negative when the balance decreased, positive
\* when it increased.
C17_ChangeIsSigned ==
    (exPc = "returned" /\ txDetails /\ exTx.meta) =>
        /\ exResult.balanceChange.den > 0
        /\ exResult.balanceChange.num = exTx.post - exTx.pre

----------------------------------------------------------------------------
(* SpecOpen: openPosition (routes/openPosition.ts and src/unnamed/part_007) *)

InitOpen ==
    /\ rev = 1
    /\ FeeIdle
    /\ TxIdle
    /\ PoolIdle
    /\ LiquidityIdle
    /\ BalanceIdle
    /\ OracleIdle
    /\ SwapIdle
    /\ ExtractIdle
    /\ opVariant \in [Requests -> {"routes", "part_007"}]
    /\ opPc = [r \in Requests |-> "create"]
    /\ opSubmitFailed = [r \in Requests |-> FALSE]
    /\ opResult = [r \in Requests |-> EmptyResult]

\* the await that follows an await: DLMM.create, refetchStates,
\* fetchEstimatePriorityFees (part_007 only), the SDK call that builds the
\* transaction, sendAndConfirmTransaction
AwaitAfter(variant, p) ==
    CASE p = "create"  -> "refetch"
      [] p = "refetch" -> IF variant = "part_007" THEN "fees" ELSE "buildTx"
      [] p = "fees"    -> "buildTx"
      [] OTHER         -> "submit"

\* part_007 lines 24-58: an await outside the try block resolves, or rejects and
\* the rejection leaves openPosition
OpenAwait(r) ==
    /\ opPc[r] \in {"create", "refetch", "fees", "buildTx"}
    /\ \/ opPc' = [opPc EXCEPT ![r] = AwaitAfter(opVariant[r], opPc[r])]
       \/ opPc' = [opPc EXCEPT ![r] = "raised"]
    /\ UNCHANGED <<opVariant, opSubmitFailed, opResult>>
    /\ UNCHANGED notOpenVars

\* part_007 lines 61-80: sendAndConfirmTransaction of @solana/web3.js resolves with
\* the signature, or rejects and the catch block returns the empty result
OpenSubmit(r) ==
    /\ opPc[r] = "submit"
    /\ opPc' = [opPc EXCEPT ![r] = "returned"]
    /\ \/ /\ opResult' = [opResult EXCEPT ![r] = [signature |-> r, positionAddress |-> r]]
          /\ UNCHANGED opSubmitFailed
       \/ /\ opSubmitFailed' = [opSubmitFailed EXCEPT ![r] = TRUE]
          /\ opResult' = [opResult EXCEPT ![r] = EmptyResult]
    /\ UNCHANGED opVariant
    /\ UNCHANGED notOpenVars

NextOpen == \E r \in Requests : OpenAwait(r) \/ OpenSubmit(r)

SpecOpen == InitOpen /\ [][NextOpen]_vars

\* C18: openPosition ends by returning a non-empty signature or by raising: it
\* never returns a result, with empty signature and empty position address, when
\* the submission of the transaction failed.
C18_SignatureOrError ==
    \A r \in Requests :
        opPc[r] = "returned" =>
            /\ ~opSubmitFailed[r]
            /\ opResult[r].signature # 0
            /\ opResult[r].positionAddress # 0

----------------------------------------------------------------------------
(* Further properties of sendAndConfirmTransaction *)

\* C21: in both revisions of sendAndConfirmTransaction the loop guard is evaluated
\* again, after an attempt whose check reported unconfirmed, only once the block
\* height has been read again: control comes back to the guard from the refresh
\* of blockheight and from nowhere else.
C21_HeightReadBeforeGuard ==
    [][(pc' = "loop" /\ pc # "height") => pc = "refresh"]_vars

\* C22: in part_001, when a confirmation check inside the loop reports confirmed
\* (the direct path or, after it, the reverse path answers confirmed or finalized)
\* the call returns in that step with the signature of the most recent broadcast,
\* and a call that has returned signs, broadcasts and reads the height no more.
C22_ConfirmedReturnsAtOnce ==
    [][/\ (/\ rev = 1
           /\ \/ pc = "direct" /\ rpcDirect \in {"confirmed", "finalized"}
              \/ pc = "reverse" /\ rpcReverse \in {"confirmed", "finalized"}) =>
              /\ pc' = "returned"
              /\ retSig' = signature
              /\ retSig' = nSent
              /\ UNCHANGED <<nSigned, nSent, signature, blockheight>>
       /\ pc = "returned" => UNCHANGED <<pc, nSigned, nSent, signature, blockheight, retSig>>]_vars

\* the second broadcast was confirmed on the reverse path and its signature returned
C22_Witness ==
    /\ rev = 1 /\ pc = "returned" /\ nSent = 2 /\ retSig = 2
    /\ checkDirect = "null" /\ checkReverse = "confirmed"

\* C23: every broadcast of sendAndConfirmTransaction is made from position "send",
\* which is entered only by the tx.sign of the same iteration, and the payload it
\* sends carries the signature of every signer the transaction requires (in
\* part_001 those of all signers the caller passed).
C23_BroadcastFreshlySigned ==
    [][/\ (signature' # signature \/ nSent' # nSent \/ (pc = "send" /\ pc' = "sleep")) =>
              /\ pc = "send"
              /\ txSigners \subseteq signedBy
              /\ rev = 1 => signedBy = signers
       /\ pc' = "send" =>
              /\ pc = "loop"
              /\ signedBy' = (IF rev = 1 THEN signers ELSE {"wallet"})]_vars

\* a transaction with two required signers was signed and broadcast a second time
C23_Witness ==
    /\ rev = 1 /\ nSigned = 2 /\ nSent = 2 /\ pc = "sleep"
    /\ txSigners = {"wallet", "position"} /\ signedBy = txSigners

\* C24: confirmTransactionByAddress(address, signature), on an answered request,
\* returns false when no entry of the history has the signature, throws when the
\* entry of the signature has err not null, and returns true exactly when that
\* entry has err null and confirmation status confirmed or finalized.
C24_ByAddressReadsTheEntry ==
    (ocTarget # 0 /\ ocHistory.kind = "ok") =>
        LET hits == {i \in DOMAIN ocHistory.entries : ocHistory.entries[i].signature = ocTarget}
        IN  /\ hits = {} => ocByAddress = "false"
            /\ hits # {} =>
                  LET e == ocHistory.entries[CHOOSE i \in hits : \A j \in hits : i <= j]
                  IN  /\ e.err # "null" => ocByAddress = "throw_onchain"
                      /\ ocByAddress = "true" <=>
                            (e.err = "null" /\ e.confirmationStatus \in {"confirmed", "finalized"})
                      /\ (e.err = "null" /\ e.confirmationStatus = "processed") =>
                            ocByAddress = "false"

\* the target is the second entry of the history, failed: the call threw
C24_Witness ==
    /\ ocTarget = 1 /\ Len(ocHistory.entries) = 2 /\ ocHistory.entries[2].signature = 1
    /\ ocHistory.entries[2].err # "null" /\ ocByAddress = "throw_onchain"

----------------------------------------------------------------------------
(* SpecLiquidity: the re-reading of the position in addLiquidity           *)
(* (src/unnamed/part_007) and removeLiquidity (src/unnamed/part_004)       *)

\* const maxRetries = 10 (part_007 line 261, part_004 line 127)
lqMaxRetries == 10

\* 1e-9 as a fraction: 1 / NanoDen
NanoDen == 1000000000

InitLiquidity ==
    /\ rev = 1
    /\ FeeIdle
    /\ TxIdle
    /\ PoolIdle
    /\ OracleIdle
    /\ SwapIdle
    /\ ExtractIdle
    /\ OpenIdle
    /\ BalanceIdle
    /\ lqKind \in {"add", "remove"}
    /\ lqPc = "start"
    /\ lqBefore = NoAmounts
    /\ lqPost \in [tokenX : 0 .. MaxLiquidity, tokenY : 0 .. MaxLiquidity]
    /\ lqVisible = FALSE
    /\ lqUpdated = NoAmounts
    /\ retryCount = 0
    /\ lqSleeps = 0
    /\ lqReturn = NoReturn

\* part_007 lines 160-234: the position is looked up, the pool created and
\* refetched, beforeLiquidity recorded, the fee estimated and the transaction
\* built; any of the awaits may reject and the position may be missing
LqPrepare ==
    /\ lqPc = "start"
    /\ \/ /\ lqBefore' \in [tokenX : 0 .. MaxLiquidity, tokenY : 0 .. MaxLiquidity]
          /\ lqPc' = "submit"
       \/ /\ lqPc' = "raised"
          /\ UNCHANGED lqBefore
    /\ UNCHANGED <<lqKind, lqPost, lqVisible, lqUpdated, retryCount, lqSleeps, lqReturn>>
    /\ UNCHANGED notLiquidityVars

\* part_007 lines 248-256: sendAndConfirmTransaction of @solana/web3.js resolves
\* with the signature, or rejects and the catch block rethrows
LqSubmit ==
    /\ lqPc = "submit"
    /\ \/ lqPc' = "sleep" /\ lqReturn' = [lqReturn EXCEPT !.signature = 1]
       \/ lqPc' = "raised" /\ UNCHANGED lqReturn
    /\ UNCHANGED <<lqKind, lqBefore, lqPost, lqVisible, lqUpdated, retryCount, lqSleeps>>
    /\ UNCHANGED notLiquidityVars

\* line 263: the 1000 ms timer fires
LqSleepOver ==
    /\ lqPc = "sleep"
    /\ lqSleeps' = lqSleeps + 1
    /\ lqPc' = "read"
    /\ UNCHANGED <<lqKind, lqBefore, lqPost, lqVisible, lqUpdated, retryCount, lqReturn>>
    /\ UNCHANGED notLiquidityVars

Abs(n) == IF n >= 0 THEN n ELSE 0 - n

\* a re-read counts as unchanged when one of the two amounts is unchanged
UnchangedEither(kind, before, updated) ==
    updated.tokenX = before.tokenX \/ updated.tokenY = before.tokenY

\* the second and third operand of the while condition: part_007 lines 281-282
\* compare the strings, part_004 lines 147-154 test |parseFloat - parseFloat| < 1e-9
Unchanged(kind, before, updated) ==
    IF kind = "add"
    THEN updated.tokenX = before.tokenX /\ updated.tokenY = before.tokenY
    ELSE /\ Abs(updated.tokenX - before.tokenX) * NanoDen < 1
         /\ Abs(updated.tokenY - before.tokenY) * NanoDen < 1

\* lines 265-304: refetchStates and getPositionsByUserAndLbPair; a rejected call or
\* a missing position leaves through the catch block; otherwise retryCount is
\* incremented and the loop goes on or ends, and after it the result is returned
LqRead ==
    /\ lqPc = "read"
    /\ \/ \E v \in (IF lqVisible THEN {TRUE} ELSE BOOLEAN) :
             LET updated == IF v THEN lqPost ELSE lqBefore
             IN  /\ lqVisible' = v
                 /\ lqUpdated' = updated
                 /\ retryCount' = retryCount + 1
                 /\ IF retryCount + 1 < lqMaxRetries /\ Unchanged(lqKind, lqBefore, updated)
                    THEN lqPc' = "sleep" /\ UNCHANGED lqReturn
                    ELSE /\ lqPc' = "returned"
                         /\ lqReturn' = [lqReturn EXCEPT !.liquidityAfter =
                                            [tokenX |-> UiAmount(updated.tokenX),
                                             tokenY |-> UiAmount(updated.tokenY)]]
       \/ /\ lqPc' = "raised"
          /\ UNCHANGED <<lqVisible, lqUpdated, retryCount, lqReturn>>
    /\ UNCHANGED <<lqKind, lqBefore, lqPost, lqSleeps>>
    /\ UNCHANGED notLiquidityVars

NextLiquidity == LqPrepare \/ LqSubmit \/ LqSleepOver \/ LqRead

SpecLiquidity == InitLiquidity /\ [][NextLiquidity]_vars

\* C26: after the add-liquidity or remove-liquidity transaction was confirmed the
\* position is re-read at least once and at most 10 times; a read in which
\* totalXAmount or totalYAmount differs from its value before the transaction is
\* the last one; and after a 10th read without a difference the operation returns
\* its result with the signature: running out of reads raises no error.
C26_PositionReadOneToTenTimes ==
    /\ retryCount <= 10
    /\ lqPc = "returned" =>
          /\ retryCount >= 1
          /\ lqSleeps = retryCount
          /\ lqReturn.signature # 0
          /\ (lqUpdated = lqBefore) => retryCount = 10
    /\ (lqPc \in {"sleep", "read"} /\ retryCount >= 1) => lqUpdated = lqBefore
    /\ lqPc = "raised" => retryCount < 10

\* ten reads of removeLiquidity without a difference, the result is returned
C26_Witness ==
    /\ lqKind = "remove" /\ lqPc = "returned" /\ retryCount = 10 /\ lqUpdated = lqBefore
    /\ lqReturn.signature = 1 /\ lqPost # lqBefore

----------------------------------------------------------------------------
(* Further properties of getDlmmPool *)

\* C27: a construction that failed does not stay in the cache: no address is
\* mapped by dlmmPoolPromises to a rejected promise, so that a later call for the
\* address starts a new construction.
C27_FailedEntryLeavesCache ==
    \A a \in Addrs :
        dlmmPoolPromises[a] # 0 => promState[dlmmPoolPromises[a]] # "rejected"

\* C28: once the construction for an address has resolved, its entry in dlmmPools
\* is never removed or replaced, no DLMM.create is invoked for the address again,
\* and every call issued from then on returns the instance of that entry.
C28_ResolvedEntryIsStable ==
    /\ [][\A a \in Addrs :
             dlmmPools[a] # 0 =>
                 (dlmmPools'[a] = dlmmPools[a] /\ createCount'[a] = createCount[a])]_vars
    /\ [](\A c \in Callers :
             (callState[c] # "idle" /\ ~callEarly[c]) =>
                 (/\ callState[c] = "got"
                  /\ callResult[c] = dlmmPools[callAddr[c]]
                  /\ callResult[c] # 0
                  /\ createCount[callAddr[c]] = 1))

\* two calls were made after the construction had resolved and one before it: all
\* three hold the same instance
C28_Witness ==
    \E a \in Addrs :
        /\ \A c \in Callers : callState[c] = "got" /\ callAddr[c] = a /\ callResult[c] = dlmmPools[a]
        /\ Cardinality({c \in Callers : ~callEarly[c]}) = 2
        /\ createCount[a] = 1

----------------------------------------------------------------------------
(* Commitment levels in the part_002 revision; the two balance reads of    *)
(* executeSwap                                                             *)

\* C29: in the part_002 revision a check inside the loop that is answered with an
\* error-free status at or above the requested commitment (processed < confirmed <
\* finalized) reports confirmed, and the call returns in that step.
C29_HigherLevelSatisfiesCommitment ==
    [][(/\ rev = 2
        /\ pc = "direct"
        /\ rpcDirect \in {"processed", "confirmed", "finalized"}
        /\ Level(rpcDirect) >= Level(commitment)) =>
           (pc' = "returned" /\ retSig' = signature)]_vars

\* C30: when the polling of executeSwap ends on an observed change, both
\* after-balances it reports are those after the transaction: it does not report
\* one balance updated and the other at its value before the transaction.
C30_BothBalancesAfterTheSwap ==
    (swPc = "done" /\ swAfter # swBefore) =>
        /\ swAfter.in = UiAmount(SwapPost.in)
        /\ swAfter.out = UiAmount(SwapPost.out)

----------------------------------------------------------------------------
(* The signature a check is made on; the two maps of the pool cache *)

\* C32: every confirmation check of sendAndConfirmTransaction, the one after the
\* loop included, is made on a signature that a broadcast of the same call has
\* returned: the call never asks for the status of an undefined signature.
C32_ChecksOnBroadcastSignature ==
    /\ pc \in {"direct", "reverse", "finalDirect", "finalReverse"} =>
          (signature # 0 /\ nSent >= 1)
    /\ checkDirect # "none" => checkSig # 0

\* C34: in every state in which control can pass to another request, no pool
\* address has an entry in both dlmmPools and dlmmPoolPromises, and the entry of
\* an address in dlmmPoolPromises is the promise of a DLMM.create call that was
\* started for that address and has not resolved successfully.
C34_MapsDisjoint ==
    \A a \in Addrs :
        /\ ~(dlmmPools[a] # 0 /\ dlmmPoolPromises[a] # 0)
        /\ dlmmPoolPromises[a] # 0 =>
              /\ promAddr[dlmmPoolPromises[a]] = a
              /\ promState[dlmmPoolPromises[a]] \in {"pending", "rejected"}
              /\ createCount[a] >= 1

\* one address has its instance, the other a construction in flight
C34_Witness ==
    \E a, b \in Addrs :
        /\ dlmmPools[a] # 0 /\ dlmmPoolPromises[a] = 0
        /\ dlmmPools[b] = 0 /\ dlmmPoolPromises[b] # 0
        /\ promState[dlmmPoolPromises[b]] = "pending"

\* ---------------------------------------------------------------------------
\* getBalance: the balances of a wallet, native SOL and the listed tokens
\* ---------------------------------------------------------------------------

MaxLamports == 2

MaxTokens == 1

\* the revisions of getBalance: unnamed/part_000, routes/getBalance.ts and the
\* one kept in package.json, which takes no symbols
BalanceRevisions == {"part_000", "routes", "package"}

\* the names a caller may ask for
Symbols == {"SOL", "USDC"}

\* this.getTokenList(): wrapped SOL is listed under the symbol SOL
TokenList ==
    << [address |-> "So11", symbol |-> "SOL", decimals |-> 9],
       [address |-> "EPjF", symbol |-> "USDC", decimals |-> 6] >>

\* the order in which accounts.value lists the accounts
MintOrder == <<"So11", "EPjF", "Other">>

RECURSIVE Pow10(_)
Pow10(d) == IF d = 0 THEN 1 ELSE 10 * Pow10(d - 1)

\* Number.prototype.toString, Decimal.prototype.toString: the digits of the number
toString(x) == [digits |-> x.num, scale |-> x.den]

\* parseFloat of such a string
parseFloatText(u) == Num(u.digits, u.scale)

\* a + b on numbers
Plus(x, y) ==
    IF x.den = y.den THEN Num(x.num + y.num, x.den)
    ELSE Num(x.num * y.den + y.num * x.den, x.den * y.den)

\* !symbols || symbols.includes(name)
Requested(sy, name) == ~sy.given \/ name \in sy.names

\* tokenList.reduce(...): the listed tokens that were asked for, by address
tokenDefs(sy) == {TokenList[i] : i \in {j \in DOMAIN TokenList : Requested(sy, TokenList[j].symbol)}}

\* for (const value of accounts.value): an entry for every account whose mint
\* is in tokenDefs, the amount scaled by the token's decimals
RECURSIVE TokenEntries(_, _, _)
TokenEntries(acc, defs, i) ==
    IF i > Len(MintOrder) THEN <<>>
    ELSE LET mint == MintOrder[i]
             rest == TokenEntries(acc, defs, i + 1)
         IN IF acc[mint] = -1 \/ ~(\E t \in defs : t.address = mint) THEN rest
            ELSE LET tokenDef == CHOOSE t \in defs : t.address = mint
                 IN <<[mint |-> mint, name |-> tokenDef.symbol,
                       uiAmount |-> toString(Num(acc[mint], Pow10(tokenDef.decimals)))]>>
                    \o rest

\* the native entry pushed before the token list is read
NativeEntry(solBalance) ==
    [mint |-> "SOL", name |-> "SOL", uiAmount |-> toString(Num(solBalance, 1000000000))]

\* tokenAccounts.findIndex(token => token.name === 'SOL'); -1 is written 0
findIndex(seq) ==
    IF \E i \in DOMAIN seq : seq[i].name = "SOL"
    THEN CHOOSE i \in DOMAIN seq :
            /\ seq[i].name = "SOL"
            /\ \A j \in DOMAIN seq : seq[j].name = "SOL" => i <= j
    ELSE 0

\* the SOL entry is updated by adding balanceSOL when there is one, pushed otherwise
WithBalanceSOL(seq, balanceLamports) ==
    LET balanceSOL == Num(balanceLamports, 1000000000)
        solIndex == findIndex(seq)
    IN IF solIndex # 0
       THEN [seq EXCEPT ![solIndex].uiAmount =
                 toString(Plus(parseFloatText(seq[solIndex].uiAmount), balanceSOL))]
       ELSE Append(seq, [mint |-> "So11", name |-> "SOL", uiAmount |-> toString(balanceSOL)])

InitBalance ==
    /\ rev = 1
    /\ FeeIdle
    /\ TxIdle
    /\ PoolIdle
    /\ OracleIdle
    /\ SwapIdle
    /\ ExtractIdle
    /\ OpenIdle
    /\ LiquidityIdle
    /\ gbRev \in BalanceRevisions
    /\ symbols \in (IF gbRev = "package"
                    THEN {[given |-> FALSE, names |-> {}]}
                    ELSE {[given |-> FALSE, names |-> {}]}
                         \cup [given : {TRUE}, names : SUBSET Symbols])
    /\ lamports \in 0 .. MaxLamports
    /\ held \in [Mints -> -1 .. MaxTokens]
    /\ gbPc = (IF gbRev = "package" THEN "accounts" ELSE "sol")
    /\ accounts = [m \in Mints |-> -1]
    /\ tokenAccounts = <<>>

\* part_000 lines 31-39, getBalance.ts lines 31-39: the native balance is read
\* and pushed when no symbols were given or SOL is among them
GetSolBalance ==
    /\ gbPc = "sol"
    /\ tokenAccounts' = (IF Requested(symbols, "SOL")
                         THEN Append(tokenAccounts, NativeEntry(lamports))
                         ELSE tokenAccounts)
    /\ gbPc' = "accounts"
    /\ UNCHANGED <<gbRev, symbols, lamports, held, accounts>>
    /\ UNCHANGED notBalanceVars

\* getTokenAccountsByOwner resolves; getBalance.ts then loops over the accounts
\* and returns, the other two read the native balance first
GetTokenAccounts ==
    /\ gbPc = "accounts"
    /\ accounts' = held
    /\ IF gbRev = "routes"
       THEN /\ tokenAccounts' = tokenAccounts \o TokenEntries(held, tokenDefs(symbols), 1)
            /\ gbPc' = "returned"
       ELSE /\ tokenAccounts' = tokenAccounts
            /\ gbPc' = "balance"
    /\ UNCHANGED <<gbRev, symbols, lamports, held>>
    /\ UNCHANGED notBalanceVars

\* part_000 lines 57-106, package.json lines 140-189: the native balance is
\* read, the token entries are pushed, the SOL entry is updated or pushed and
\* the response returned
GetBalanceLamports ==
    /\ gbPc = "balance"
    /\ tokenAccounts' =
          WithBalanceSOL(tokenAccounts \o TokenEntries(accounts, tokenDefs(symbols), 1),
                         lamports)
    /\ gbPc' = "returned"
    /\ UNCHANGED <<gbRev, symbols, lamports, held, accounts>>
    /\ UNCHANGED notBalanceVars

\* one of the awaited RPC calls rejects and getBalance throws
BalanceReject ==
    /\ \/ gbPc = "sol" /\ Requested(symbols, "SOL")
       \/ gbPc \in {"accounts", "balance"}
    /\ gbPc' = "raised"
    /\ UNCHANGED <<gbRev, symbols, lamports, held, accounts, tokenAccounts>>
    /\ UNCHANGED notBalanceVars

NextBalance ==
    \/ GetSolBalance
    \/ GetTokenAccounts
    \/ GetBalanceLamports
    \/ BalanceReject

SpecBalance == InitBalance /\ [][NextBalance]_vars

\* C31: for a wallet holding no wrapped-SOL token account, getBalance called
\* without a symbols filter returns exactly one entry named SOL, and its amount
\* is the wallet's native balance, lamports / 10^9, counted once
C31_NativeCountedOnce ==
    (gbPc = "returned" /\ ~symbols.given /\ held["So11"] = -1) =>
        /\ Cardinality({i \in DOMAIN tokenAccounts : tokenAccounts[i].name = "SOL"}) = 1
        /\ \A i \in DOMAIN tokenAccounts :
              tokenAccounts[i].name = "SOL" =>
                  tokenAccounts[i].uiAmount = [digits |-> lamports, scale |-> 1000000000]

\* C33: when getBalance is called with a symbols list, every entry it returns
\* has a name contained in that list
C33_OnlyRequestedNames ==
    (gbPc = "returned" /\ symbols.given) =>
        \A i \in DOMAIN tokenAccounts : tokenAccounts[i].name \in symbols.names

====
